---- MODULE Spec2Model ----
(***************************************************************************)
(* NewEra daily submission bot.                                            *)
(*                                                                         *)
(* Two builds of the bot live in the repository: the plain command build   *)
(* (src/index.js) and the panel build (src/unnamed/part_000), which adds   *)
(* the /panel command, the panel buttons and a refresh of the panel        *)
(* message after every write.  The variable `variant` says which build is  *)
(* running; everything else is the state of that process, of its data file *)
(* and of the guild it serves.                                             *)
(***************************************************************************)
EXTENDS Integers, Sequences, FiniteSets, Bags, TLC

VARIABLES
  variant,      \* "basic" (src/index.js) or "panel" (src/unnamed/part_000)
  phase,        \* "boot" | "registering" | "running" | "crashed"
  timerOn,      \* setInterval(() => ensureToday(data), 60000) is armed
  now,          \* the calendar day DateTime.now().setZone(TZ).toISODate() names
  data,         \* the in-memory document
  file,         \* ./data.json: a document, or FileAbsent / FileMalformed
  roles,        \* guild.roles.cache: the roles that exist
  roleMembers,  \* role id -> the set of members holding it
  guildOrder,   \* iteration order of guild.members.cache
  tasks,        \* interaction handlers suspended at an await
  out,          \* the reply produced by the last step
  writes        \* the documents the last step handed to saveData, in order

vars == <<variant, phase, timerOn, now, data, file, roles, roleMembers,
          guildOrder, tasks, out, writes>>

----------------------------------------------------------------------------
(* Bounds of the model *)

MaxDay == 2
MaxInFlight == 2

----------------------------------------------------------------------------
(* The guild *)

NULL == "null"
None == <<>>
Some(x) == <<x>>

Members == {"m1", "m2", "m3", "m4", "m5"}
MainMembers == {"m1", "m2"}
Roles == {"r1", "r2"}
\* the role whose membership and existence change while the bot runs
DynamicRole == "r1"

\* member.permissions.has(PermissionFlagsBits.ManageGuild)
Admins == {"m1"}

Days == 1..MaxDay

\* member.displayName, as UTF-16 code units: "amy", "Bo", "Zed", "bo", "Bo"
displayName(m) ==
  CASE m = "m1" -> <<97, 109, 121>>
    [] m = "m2" -> <<66, 111>>
    [] m = "m3" -> <<90, 101, 100>>
    [] m = "m4" -> <<98, 111>>
    [] OTHER    -> <<66, 111>>

----------------------------------------------------------------------------
(* String.prototype.localeCompare on display names (ICU root collation,    *)
(* default strength): the letters decide first, case only breaks a tie of  *)
(* letters, lower case before upper case.                                  *)

IsUpper(c) == c < 97
Letter(c) == IF IsUpper(c) THEN c - 65 ELSE c - 97

RECURSIVE CmpSeq(_, _)
CmpSeq(a, b) ==
  IF a = <<>> THEN (IF b = <<>> THEN 0 ELSE -1)
  ELSE IF b = <<>> THEN 1
  ELSE IF Head(a) < Head(b) THEN -1
  ELSE IF Head(a) > Head(b) THEN 1
  ELSE CmpSeq(Tail(a), Tail(b))

Primary(s) == [i \in 1..Len(s) |-> Letter(s[i])]
Tertiary(s) == [i \in 1..Len(s) |-> IF IsUpper(s[i]) THEN 1 ELSE 0]

\* a comparison by code unit, as a < b on strings would do
CodeUnitCompare(a, b) == CmpSeq(a, b)

localeCompare(a, b) ==
  LET p == CmpSeq(Primary(a), Primary(b))
  IN  IF p # 0 THEN p ELSE CmpSeq(Tertiary(a), Tertiary(b))

\* Array.prototype.sort with (a, b) => a.displayName.localeCompare(b.displayName):
\* stable, so an element goes after every element that does not sort after it.
RECURSIVE InsertSorted(_, _)
InsertSorted(m, s) ==
  IF s = <<>> THEN <<m>>
  ELSE IF localeCompare(displayName(m), displayName(Head(s))) < 0
       THEN <<m>> \o s
       ELSE <<Head(s)>> \o InsertSorted(m, Tail(s))

RECURSIVE SortByName(_)
SortByName(s) ==
  IF s = <<>> THEN <<>>
  ELSE InsertSorted(s[Len(s)], SortByName(SubSeq(s, 1, Len(s) - 1)))

Range(s) == {s[i] : i \in 1..Len(s)}

Min(a, b) == IF a < b THEN a ELSE b

----------------------------------------------------------------------------
(* Persistence.  The process state the helpers read and write is threaded  *)
(* through them as a record st = [data, file, writes].                     *)

todayISO == now

Doc(date, completed, role, msg, ch) ==
  [currentDate |-> date, completed |-> completed, gangRoleId |-> role,
   panelMessageId |-> msg, panelChannelId |-> ch]

\* the document of loadData's catch branch
DefaultDoc == Doc(todayISO, <<>>, NULL, NULL, NULL)

FileAbsent == [kind |-> "absent", doc |-> Doc(0, <<>>, NULL, NULL, NULL)]
FileMalformed == [kind |-> "malformed", doc |-> Doc(0, <<>>, NULL, NULL, NULL)]
FileOf(d) == [kind |-> "doc", doc |-> d]
\* a file whose content is the JSON text `null`: it parses, to no document
FileNull == [kind |-> "null", doc |-> Doc(0, <<>>, NULL, NULL, NULL)]

\* the JavaScript value null
JsNull == [isNull |-> TRUE]

\* try { return JSON.parse(fs.readFileSync(DATA_FILE, 'utf8')) } catch { default }
loadData(f) ==
  IF f.kind = "doc" THEN f.doc
  ELSE IF f.kind = "null" THEN JsNull
  ELSE DefaultDoc

saveData(st) ==
  [st EXCEPT !.file = FileOf(st.data), !.writes = Append(@, st.data)]

\* a rollover that forgets to clear the list
ensureTodayKeepsCompleted(st) ==
  IF st.data.currentDate # todayISO
  THEN saveData([st EXCEPT !.data.currentDate = todayISO])
  ELSE st

ensureToday(st) ==
  IF st.data.currentDate # todayISO
  THEN saveData([st EXCEPT !.data.currentDate = todayISO,
                           !.data.completed = <<>>])
  ELSE st

\* the write of /force-reset: data.currentDate = today(); data.completed = [];
\* saveData(data)
forceResetDateOnly(st) ==
  saveData([st EXCEPT !.data.currentDate = todayISO])

forceReset(st) ==
  saveData([st EXCEPT !.data.currentDate = todayISO, !.data.completed = <<>>])

\* a role change that starts the day's list afresh
setGangRoleClearing(st, r) ==
  saveData([st EXCEPT !.data.gangRoleId = r, !.data.completed = <<>>])

\* a role change that is not persisted
setGangRoleUnsaved(st, r) == [st EXCEPT !.data.gangRoleId = r]

\* the write of /setgangrole: data.gangRoleId = role.id; saveData(data)
setGangRole(st, r) == saveData([st EXCEPT !.data.gangRoleId = r])

----------------------------------------------------------------------------
(* The membership view *)

NoMembers == [isNull |-> TRUE, list |-> <<>>]

\* role.members: the guild's cached members that hold the role, in cache order
RoleMemberList(r) == SelectSeq(guildOrder, LAMBDA m : m \in roleMembers[r])

\* a lookup that does not notice a deleted role
getGangMembersUnchecked(d) ==
  IF d.gangRoleId = NULL THEN NoMembers
  ELSE [isNull |-> FALSE, list |-> RoleMemberList(d.gangRoleId)]

getGangMembers(d) ==
  IF d.gangRoleId = NULL THEN NoMembers
  ELSE IF d.gangRoleId \notin roles THEN NoMembers
  ELSE [isNull |-> FALSE, list |-> RoleMemberList(d.gangRoleId)]

\* an eligibility check that lets everyone through
isGangMemberAlways(d, m) == TRUE

isGangMember(d, m) ==
  IF d.gangRoleId = NULL THEN TRUE
  ELSE d.gangRoleId \in roles /\ m \in roleMembers[d.gangRoleId]

\* a count without the cap
DoneCountUncapped(doneSet, total) == Cardinality(doneSet)

\* Math.min(doneSet.size, total)
DoneCount(doneSet, total) == Min(Cardinality(doneSet), total)

\* members.filter(m => !doneSet.has(m.id)).map(m => m).sort(...)
Remaining(members, doneSet) ==
  SortByName(SelectSeq(members, LAMBDA m : m \notin doneSet))

\* a summary that also persists the document it read
summarizeSaving(st) ==
  LET st1 == saveData(ensureToday(st))
      members == getGangMembers(st1.data)
      doneSet == Range(st1.data.completed)
      remaining == Remaining(members.list, doneSet)
  IN  IF members.isNull
      THEN [st |-> st1, total |-> None,
            doneCount |-> Len(st1.data.completed),
            remainingCount |-> None, remaining |-> <<>>]
      ELSE [st |-> st1, total |-> Some(Len(members.list)),
            doneCount |-> DoneCount(doneSet, Len(members.list)),
            remainingCount |-> Some(Len(remaining)),
            remaining |-> remaining]

summarize(st) ==
  LET st1 == ensureToday(st)
      members == getGangMembers(st1.data)
      doneSet == Range(st1.data.completed)
      remaining == Remaining(members.list, doneSet)
  IN  IF members.isNull
      THEN [st |-> st1, total |-> None,
            doneCount |-> Len(st1.data.completed),
            remainingCount |-> None, remaining |-> <<>>]
      ELSE [st |-> st1, total |-> Some(Len(members.list)),
            doneCount |-> DoneCount(doneSet, Len(members.list)),
            remainingCount |-> Some(Len(remaining)),
            remaining |-> remaining]

----------------------------------------------------------------------------
(* Replies *)

\* remaining?.slice(0, 20)
PreviewLen == 20

Reply(kind, user, date) ==
  [kind |-> kind, user |-> user, date |-> date, counts |-> FALSE,
   total |-> None, doneCount |-> 0, remainingCount |-> None, list |-> <<>>]

\* the reply does not depend on who asked
NoUser == "none"

NoReply == Reply("none", NoUser, 0)

\* a reply that shows the summary s; `counts` says whether done/total and
\* remaining are shown or only the bare done count
SummaryReply(kind, user, date, s, counts, list) ==
  [kind |-> kind, user |-> user, date |-> date, counts |-> counts,
   total |-> s.total, doneCount |-> s.doneCount,
   remainingCount |-> s.remainingCount, list |-> list]

\* JavaScript truthiness of `total` (null and 0 are falsy) and of an array
TruthyTotal(total) == total # None /\ total[1] # 0
TruthyArray(a) == TRUE

\* whether a status reply shows done/total and remaining: /status and /done
\* test `total ? ... : ...`, the Status button and the panel test
\* `total !== null ? ... : ...`
StatusCounts(total) == TruthyTotal(total)
BtnStatusCounts(total) == total # None

----------------------------------------------------------------------------
(* Suspended handlers *)

Task(kind, user, pc) == [kind |-> kind, user |-> user, pc |-> pc]

\* the last synchronous run is over: its reply has left the process
Quiet == out.kind = "none" /\ writes = <<>>

InFlight == BagCardinality(tasks)
CanSuspend == InFlight < MaxInFlight
Suspended(t) == BagIn(t, tasks)
\* the promise that handler t awaits settles
Resume(t) == Quiet /\ Suspended(t)
Spawn(t) == tasks (+) SetToBag({t})
Finish(t) == tasks (-) SetToBag({t})
\* handler t reaches its next await; from the panel refresh on it no longer
\* reads the member it fetched
Move(t, pc) ==
  (tasks (-) SetToBag({t})) (+) SetToBag({Task(t.kind, NoUser, pc)})

St0 == [data |-> data, file |-> file, writes |-> <<>>]

Commit(st, o) ==
  /\ data' = st.data
  /\ file' = st.file
  /\ writes' = st.writes
  /\ out' = o

EnvUnchanged ==
  UNCHANGED <<variant, phase, timerOn, now, roles, roleMembers, guildOrder>>

HasPanel(d) == d.panelChannelId # NULL /\ d.panelMessageId # NULL

----------------------------------------------------------------------------
(* Start of the process and the environment *)

\* ./data.json when the process starts: none, an unreadable one, or what an
\* earlier run left behind
InitFiles ==
  {FileAbsent, FileMalformed, FileNull,
   FileOf(Doc(0, <<"m2">>, "r1", NULL, NULL)),
   FileOf(Doc(1, <<"m1">>, NULL, NULL, NULL)),
   FileOf(Doc(1, <<"m1">>, "r1", "msg", "ch"))}

Init ==
  /\ variant \in {"basic", "panel"}
  /\ phase = "boot"
  /\ timerOn = FALSE
  /\ now = 1
  /\ data = Doc(0, <<>>, NULL, NULL, NULL)
  /\ file \in InitFiles
  /\ roles = Roles
  /\ roleMembers = [r \in Roles |-> IF r = "r1" THEN {"m1"} ELSE {"m2"}]
  /\ guildOrder = <<"m1", "m2">>
  /\ tasks = EmptyBag
  /\ out = NoReply
  /\ writes = <<>>

\* module load: const data = loadData(); ensureToday(data); ... client.login().
\* When loadData returns null, ensureToday's read of data.currentDate throws
\* and the module load ends the process.
Boot ==
  /\ Quiet
  /\ phase = "boot"
  /\ LET d == loadData(file)
     IN  IF d = JsNull
         THEN /\ phase' = "crashed"
              /\ Commit(St0, NoReply)
         ELSE /\ phase' = "registering"
              /\ Commit(ensureToday([St0 EXCEPT !.data = d]), NoReply)
  /\ UNCHANGED <<variant, timerOn, now, roles, roleMembers, guildOrder, tasks>>

\* client.once('ready'): the plain build arms the timer only when
\* registerCommands() resolves; the panel build catches its failure, arms
\* the timer and, when the document names a panel, goes on to refresh it.
Ready(registered) ==
  /\ Quiet
  /\ phase = "registering"
  /\ phase' = "running"
  /\ timerOn' = (variant = "panel" \/ registered)
  /\ tasks' = IF variant = "panel" /\ HasPanel(data)
              THEN Spawn(Task("ready", NoUser, "refresh"))
              ELSE tasks
  /\ out' = NoReply
  /\ writes' = <<>>
  /\ UNCHANGED <<variant, now, data, file, roles, roleMembers, guildOrder>>

\* setInterval(() => ensureToday(data), 60 * 1000)
Tick ==
  /\ Quiet
  /\ timerOn
  /\ Commit(ensureToday(St0), NoReply)
  /\ EnvUnchanged
  /\ UNCHANGED tasks

\* the wall clock passes midnight in America/Detroit
Midnight ==
  /\ Quiet
  /\ now < MaxDay
  /\ now' = now + 1
  /\ out' = NoReply
  /\ writes' = <<>>
  /\ UNCHANGED <<variant, phase, timerOn, data, file, roles, roleMembers,
                 guildOrder, tasks>>

\* a guild member gains or loses a role
MemberUpdate(m, r) ==
  /\ Quiet
  /\ r \in roles
  /\ roleMembers' = [roleMembers EXCEPT ![r] =
                       IF m \in @ THEN @ \ {m} ELSE @ \cup {m}]
  /\ out' = NoReply
  /\ writes' = <<>>
  /\ UNCHANGED <<variant, phase, timerOn, now, data, file, roles, guildOrder,
                 tasks>>

\* a role is deleted from the guild
RoleDelete(r) ==
  /\ Quiet
  /\ r \in roles
  /\ roles' = roles \ {r}
  /\ roleMembers' = [roleMembers EXCEPT ![r] = {}]
  /\ out' = NoReply
  /\ writes' = <<>>
  /\ UNCHANGED <<variant, phase, timerOn, now, data, file, guildOrder, tasks>>

\* the synchronous run that produced the reply and the writes returns to the
\* event loop; until then nothing else runs
Settle ==
  /\ ~Quiet
  /\ out' = NoReply
  /\ writes' = <<>>
  /\ UNCHANGED <<variant, phase, timerOn, now, data, file, roles, roleMembers,
                 guildOrder, tasks>>

\* interactions are delivered once the client is ready
Listening == Quiet /\ phase = "running"

Preview(list) == SubSeq(list, 1, Min(PreviewLen, Len(list)))

\* the remaining / ping-remaining tail shared by commands and buttons:
\* if (!remaining) ...; [if (!remaining.length) ...;] list or mentions
RemainingReply(kind, u, s) ==
  IF ~TruthyArray(s.remaining)
  THEN Reply("need_role", u, 0)
  ELSE IF Len(s.remaining) = 0
  THEN Reply("everyone_done", u, 0)
  ELSE SummaryReply(kind, u, 0, s, FALSE, s.remaining)

----------------------------------------------------------------------------
(* Slash commands that both builds handle in one synchronous run *)

\* /status
Status ==
  /\ Listening
  /\ LET s == summarize(ensureToday(St0))
     IN  Commit(s.st, SummaryReply("status", NoUser, s.st.data.currentDate, s,
                                   StatusCounts(s.total), Preview(s.remaining)))
  /\ EnvUnchanged
  /\ UNCHANGED tasks

\* /remaining
RemainingCmd ==
  /\ Listening
  /\ LET s == summarize(ensureToday(St0))
     IN  Commit(s.st, RemainingReply("list", NoUser, s))
  /\ EnvUnchanged
  /\ UNCHANGED tasks

----------------------------------------------------------------------------
(* The plain build, src/index.js *)

BasicSetGangRole(u, r) ==
  /\ variant = "basic" /\ Listening
  /\ r \in roles
  /\ LET st1 == ensureToday(St0)
         st2 == setGangRole(st1, r)
     IN  Commit(st2, Reply("role_set", u, 0))
  /\ EnvUnchanged
  /\ UNCHANGED tasks

BasicForceReset(u) ==
  /\ variant = "basic" /\ Listening
  /\ LET st1 == ensureToday(St0)
         st2 == forceReset(st1)
     IN  Commit(st2, Reply("reset", u, 0))
  /\ EnvUnchanged
  /\ UNCHANGED tasks

BasicPingRemaining(u) ==
  /\ variant = "basic" /\ Listening
  /\ LET s == summarize(ensureToday(St0))
     IN  Commit(s.st, RemainingReply("ping", u, s))
  /\ EnvUnchanged
  /\ UNCHANGED tasks

\* /done up to `await interaction.guild.members.fetch(...)`
BasicDone(u) ==
  /\ variant = "basic" /\ Listening
  /\ CanSuspend
  /\ Commit(ensureToday(St0), NoReply)
  /\ tasks' = Spawn(Task("done", u, "fetch"))
  /\ EnvUnchanged

\* /done from the resolved fetch to the reply
BasicDoneFetched(t) ==
  /\ variant = "basic"
  /\ Resume(t) /\ t.kind = "done" /\ t.pc = "fetch"
  /\ tasks' = Finish(t)
  /\ IF ~isGangMember(data, t.user)
     THEN Commit(St0, Reply("reject_role", t.user, 0))
     ELSE IF t.user \in Range(data.completed)
     THEN Commit(St0, Reply("already", t.user, data.currentDate))
     ELSE LET st1 == saveData([St0 EXCEPT !.data.completed = Append(@, t.user)])
              s == summarize(st1)
          IN  Commit(s.st, SummaryReply("recorded", t.user,
                                        s.st.data.currentDate, s,
                                        TruthyTotal(s.total), <<>>))
  /\ EnvUnchanged

\* `await interaction.guild.members.fetch(...)` rejects: the handler's
\* promise rejects and nothing after the await runs
FetchFailed(t) ==
  /\ Resume(t) /\ t.pc = "fetch"
  /\ tasks' = Finish(t)
  /\ Commit(St0, Reply("unhandled", t.user, 0))
  /\ EnvUnchanged

----------------------------------------------------------------------------
(* The panel build, src/unnamed/part_000 *)

PanelBuild == variant = "panel" /\ Listening

\* the reply that ends a handler once its panel refresh is over
FinalReply(t) ==
  CASE t.kind = "done" ->
         Reply("recorded", t.user, data.currentDate)
    [] t.kind = "setgangrole" -> Reply("role_set", t.user, 0)
    [] t.kind = "force-reset" -> Reply("reset", t.user, 0)
    [] OTHER -> NoReply

\* after a write: if (data.panelChannelId && data.panelMessageId) await
\* channels.fetch(...) and then messages.fetch(...), else straight to the
\* reply.  Nothing is read or written between the two fetches, so they are
\* one suspension, "refresh".
AfterWrite(t, st) ==
  IF HasPanel(st.data)
  THEN /\ Commit(st, NoReply)
       /\ tasks' = Move(t, "refresh")
  ELSE /\ Commit(st, [FinalReply(t) EXCEPT
                        !.date = IF @ = 0 THEN 0 ELSE st.data.currentDate])
       /\ tasks' = Finish(t)

SetGangRole(u, r) ==
  /\ PanelBuild
  /\ r \in roles
  /\ LET st1 == ensureToday(St0)
         st2 == setGangRole(st1, r)
     IN  IF HasPanel(st2.data)
         THEN /\ CanSuspend
              /\ Commit(st2, NoReply)
              /\ tasks' = Spawn(Task("setgangrole", NoUser, "refresh"))
         ELSE /\ Commit(st2, Reply("role_set", u, 0))
              /\ UNCHANGED tasks
  /\ EnvUnchanged

ForceReset(u) ==
  /\ PanelBuild
  /\ LET st1 == ensureToday(St0)
         st2 == forceReset(st1)
     IN  IF HasPanel(st2.data)
         THEN /\ CanSuspend
              /\ Commit(st2, NoReply)
              /\ tasks' = Spawn(Task("force-reset", NoUser, "refresh"))
         ELSE /\ Commit(st2, Reply("reset", u, 0))
              /\ UNCHANGED tasks
  /\ EnvUnchanged

\* a command or button whose handler first awaits members.fetch(...)
FetchKinds ==
  {"done", "ping-remaining", "btn_help", "btn_done", "btn_status",
   "btn_remaining", "btn_ping"}
\* the handlers that read the fetched member after the await
UserKinds == {"done", "btn_done", "ping-remaining", "btn_ping"}
IsButton(kind) ==
  kind \in {"btn_help", "btn_done", "btn_status", "btn_remaining", "btn_ping"}
\* btn_done runs the statements of /done and btn_ping those of
\* /ping-remaining, so from the await on each pair is one kind of handler
Continuation(kind) ==
  CASE kind = "btn_done" -> "done"
    [] kind = "btn_ping" -> "ping-remaining"
    [] OTHER -> kind

\* interactionCreate up to `await interaction.guild.members.fetch(...)`
Interaction(u, kind) ==
  /\ PanelBuild
  /\ kind \in FetchKinds
  /\ IsButton(kind) => HasPanel(data)
  /\ CanSuspend
  /\ Commit(ensureToday(St0), NoReply)
  /\ tasks' = Spawn(Task(Continuation(kind),
                         IF kind \in UserKinds THEN u ELSE NoUser, "fetch"))
  /\ EnvUnchanged

\* a mark-done that appends without looking
MarkDoneAlwaysPush(t) ==
  IF ~isGangMember(data, t.user)
  THEN /\ Commit(St0, Reply("reject_role", t.user, 0))
       /\ tasks' = Finish(t)
  ELSE AfterWrite(t, saveData([St0 EXCEPT
                                 !.data.completed = Append(@, t.user)]))

\* a mark-done that writes a list holding only the caller
MarkDoneOverwrite(t) ==
  IF ~isGangMember(data, t.user)
  THEN /\ Commit(St0, Reply("reject_role", t.user, 0))
       /\ tasks' = Finish(t)
  ELSE AfterWrite(t, IF t.user \notin Range(data.completed)
                     THEN saveData([St0 EXCEPT !.data.completed = <<t.user>>])
                     ELSE St0)

\* a mark-done that records the first member of the roster, whoever called
MarkDoneFirstMember(t) ==
  IF ~isGangMember(data, t.user)
  THEN /\ Commit(St0, Reply("reject_role", t.user, 0))
       /\ tasks' = Finish(t)
  ELSE AfterWrite(t, IF guildOrder[1] \notin Range(data.completed)
                     THEN saveData([St0 EXCEPT
                                      !.data.completed = Append(@, guildOrder[1])])
                     ELSE St0)

\* /done and the "I'm Done" button, from the resolved fetch on
MarkDone(t) ==
  IF ~isGangMember(data, t.user)
  THEN /\ Commit(St0, Reply("reject_role", t.user, 0))
       /\ tasks' = Finish(t)
  ELSE AfterWrite(t, IF t.user \notin Range(data.completed)
                     THEN saveData([St0 EXCEPT
                                      !.data.completed = Append(@, t.user)])
                     ELSE St0)

DoneFetched(t) ==
  /\ variant = "panel"
  /\ Resume(t) /\ t.kind = "done" /\ t.pc = "fetch"
  /\ MarkDone(t)
  /\ EnvUnchanged

BtnHelpFetched(t) ==
  /\ Resume(t) /\ t.kind = "btn_help" /\ t.pc = "fetch"
  /\ Commit(St0, Reply("help", t.user, 0))
  /\ tasks' = Finish(t)
  /\ EnvUnchanged

BtnStatusFetched(t) ==
  /\ Resume(t) /\ t.kind = "btn_status" /\ t.pc = "fetch"
  /\ LET s == summarize(St0)
     IN  Commit(s.st, SummaryReply("btn_status", t.user, 0, s,
                                   BtnStatusCounts(s.total), <<>>))
  /\ tasks' = Finish(t)
  /\ EnvUnchanged

BtnRemainingFetched(t) ==
  /\ Resume(t) /\ t.kind = "btn_remaining" /\ t.pc = "fetch"
  /\ LET s == summarize(St0)
     IN  Commit(s.st, RemainingReply("list", t.user, s))
  /\ tasks' = Finish(t)
  /\ EnvUnchanged

\* /ping-remaining and the "Ping Remaining" button, from the resolved fetch on
PingFetched(t) ==
  /\ Resume(t) /\ t.kind = "ping-remaining" /\ t.pc = "fetch"
  /\ IF t.user \notin Admins
     THEN Commit(St0, Reply("reject_admin", t.user, 0))
     ELSE LET s == summarize(St0)
          IN  Commit(s.st, RemainingReply("ping", t.user, s))
  /\ tasks' = Finish(t)
  /\ EnvUnchanged

\* the panel refresh: channels.fetch(...) and messages.fetch(...) settle; on
\* success panelEmbed(guild) is built (summarize, hence ensureToday) and
\* msg.edit(...) is sent, on failure `catch {}` leads to the reply
MessageFetched(t, ok) ==
  /\ Resume(t) /\ t.pc = "refresh"
  /\ IF ok
     THEN /\ Commit(summarize(St0).st, NoReply)
          /\ tasks' = Move(t, "edit")
     ELSE /\ Commit(St0, FinalReply(t))
          /\ tasks' = Finish(t)
  /\ EnvUnchanged

\* msg.edit(...) settles, either way the handler replies
Edited(t) ==
  /\ Resume(t) /\ t.pc = "edit"
  /\ Commit(St0, FinalReply(t))
  /\ tasks' = Finish(t)
  /\ EnvUnchanged

\* /panel up to `await interaction.channel.send(...)`
Panel(u) ==
  /\ PanelBuild
  /\ CanSuspend
  /\ Commit(summarize(ensureToday(St0)).st, NoReply)
  /\ tasks' = Spawn(Task("panel", NoUser, "send"))
  /\ EnvUnchanged

\* /panel once the message is sent
PanelSent(t, ok) ==
  /\ Resume(t) /\ t.pc = "send"
  /\ IF ok
     THEN Commit(saveData([St0 EXCEPT !.data.panelMessageId = "msg",
                                      !.data.panelChannelId = "ch"]),
                 Reply("panel_posted", t.user, 0))
     ELSE Commit(St0, Reply("unhandled", t.user, 0))
  /\ tasks' = Finish(t)
  /\ EnvUnchanged

----------------------------------------------------------------------------

Next ==
  \/ Settle
  \/ Boot
  \/ \E b \in BOOLEAN : Ready(b)
  \/ Tick
  \/ Midnight
  \/ \E m \in MainMembers : MemberUpdate(m, DynamicRole)
  \/ RoleDelete(DynamicRole)
  \/ Status
  \/ RemainingCmd
  \/ \E u \in MainMembers, r \in Roles : BasicSetGangRole(u, r)
  \/ \E u \in MainMembers : BasicForceReset(u)
  \/ \E u \in MainMembers : BasicPingRemaining(u)
  \/ \E u \in MainMembers : BasicDone(u)
  \/ \E u \in MainMembers, r \in Roles : SetGangRole(u, r)
  \/ \E u \in MainMembers : ForceReset(u)
  \/ \E u \in MainMembers, k \in FetchKinds : Interaction(u, k)
  \/ \E u \in MainMembers : Panel(u)
  \/ \E t \in BagToSet(tasks) : BasicDoneFetched(t)
  \/ \E t \in BagToSet(tasks) : FetchFailed(t)
  \/ \E t \in BagToSet(tasks) : DoneFetched(t)
  \/ \E t \in BagToSet(tasks) : BtnHelpFetched(t)
  \/ \E t \in BagToSet(tasks) : BtnStatusFetched(t)
  \/ \E t \in BagToSet(tasks) : BtnRemainingFetched(t)
  \/ \E t \in BagToSet(tasks) : PingFetched(t)
  \/ \E t \in BagToSet(tasks), ok \in BOOLEAN : MessageFetched(t, ok)
  \/ \E t \in BagToSet(tasks) : Edited(t)
  \/ \E t \in BagToSet(tasks), ok \in BOOLEAN : PanelSent(t, ok)

Spec == Init /\ [][Next]_vars

----------------------------------------------------------------------------
(* Properties *)

PostSt == [data |-> data', file |-> file', writes |-> <<>>]

\* a step in which a done handler (command or button, either build) resumes
\* from the roster fetch and reads data.completed
DoneResumes(t) == BasicDoneFetched(t) \/ DoneFetched(t)

\* C1: the Rollover Rule.  A timer tick on a document whose currentDate is not
\* today's date leaves completed empty and currentDate = today, and saves it; a
\* second application then changes nothing; a tick on a document that already
\* carries today's date changes neither the document nor the file.
C1_Rollover ==
  [][Tick =>
       /\ data.currentDate # now =>
            /\ data'.completed = <<>>
            /\ data'.currentDate = now
            /\ data'.gangRoleId = data.gangRoleId
            /\ file' = FileOf(data')
       /\ data.currentDate = now => data' = data /\ file' = file /\ writes' = <<>>
       /\ ensureToday(PostSt) = PostSt
    ]_vars

\* a tick has just rolled the document over to a later day
C1_Witness ==
  /\ phase = "running" /\ tasks = EmptyBag
  /\ out = NoReply /\ writes = <<data>>
  /\ data.completed = <<>> /\ data.currentDate = now /\ now > 1

\* C2: no handler observes a stale date.  Whenever a done handler resumes
\* from the roster fetch and reads or appends to completed, currentDate is
\* today's date.
C2_NoStaleDate ==
  [][\A t \in BagToSet(tasks) : DoneResumes(t) => data.currentDate = now]_vars

\* the members of the configured role, when it is configured and exists
ConfiguredRole == data.gangRoleId # NULL /\ data.gangRoleId \in roles
GangSet == IF ConfiguredRole THEN roleMembers[data.gangRoleId] ELSE {}
DoneSet == Range(data.completed)

\* the reply of the last step carries a summary made with a resolved role
SummaryShown ==
  /\ out.kind \in {"status", "btn_status", "recorded", "list", "ping"}
  /\ out.total # None

\* C3: with a configured existing role, summarize returns
\* doneCount = min(|completed /\ members|, total), hence
\* doneCount + remainingCount = total, whatever identifiers completed holds.
C3_DoneCountIntersects ==
  SummaryShown =>
    /\ out.doneCount = Min(Cardinality(DoneSet \cap GangSet), out.total[1])
    /\ out.doneCount + out.remainingCount[1] = out.total[1]

\* C4: with a configured existing role, every summary shown or computable in
\* a reachable state has 0 <= doneCount <= total.
C4_DoneCountBounded ==
  /\ SummaryShown => 0 <= out.doneCount /\ out.doneCount <= out.total[1]
  /\ LET s == summarize(St0)
     IN  s.total # None => 0 <= s.doneCount /\ s.doneCount <= s.total[1]

\* a status reply made while completed holds more identifiers than the role
\* has members: the cap has acted
C4_Witness ==
  /\ out.kind = "status" /\ out.total # None
  /\ Cardinality(DoneSet) > out.total[1]
  /\ out.doneCount = out.total[1]

\* C5: with no role configured, or a configured role that no longer exists,
\* summarize returns total = null, remainingCount = null, remaining = [] and
\* doneCount = |completed|.
C5_Indeterminate ==
  /\ ~ConfiguredRole =>
       LET s == summarize(St0)
       IN  /\ s.total = None /\ s.remainingCount = None /\ s.remaining = <<>>
           /\ s.doneCount = Cardinality(Range(s.st.data.completed))
  /\ (~ConfiguredRole /\ out.kind = "status") =>
       /\ out.total = None /\ out.remainingCount = None /\ out.list = <<>>
       /\ ~out.counts
       /\ out.doneCount = Cardinality(DoneSet)

\* a status reply made while the configured role is deleted and somebody is done
C5_Witness ==
  /\ out.kind = "status"
  /\ data.gangRoleId # NULL /\ data.gangRoleId \notin roles
  /\ out.doneCount = 1 /\ data.completed # <<>>

NoDup(seq) == Cardinality(Range(seq)) = Len(seq)

\* C6: completed never holds an identifier twice, and a done handler that
\* resumes for a member already in completed leaves document and file as
\* they are.
C6_NoDuplicates ==
  [][/\ NoDup(data.completed) /\ NoDup(data'.completed)
     /\ \A t \in BagToSet(tasks) :
          (DoneResumes(t) /\ t.user \in DoneSet) => data' = data /\ file' = file
    ]_vars

\* the panel build has just answered a repeated done: the success reply, with
\* nothing written in the step
C6_Witness ==
  /\ variant = "panel" /\ out.kind = "recorded" /\ writes = <<>>
  /\ ~HasPanel(data) /\ out.user \in DoneSet /\ data.currentDate = now

\* a step of an admin-only handler run for principal u
AdminOnlyStep(u) ==
  \/ \E r \in Roles : BasicSetGangRole(u, r) \/ SetGangRole(u, r)
  \/ BasicForceReset(u) \/ ForceReset(u)
  \/ BasicPingRemaining(u)
  \/ Panel(u)
  \/ \E t \in BagToSet(tasks) : t.user = u /\ PingFetched(t)

\* C7: an admin-only handler invoked by a principal without Manage Server
\* replies with a rejection and leaves the document and the file untouched
\* (apart from the rollover every handler starts with).
C7_UnauthorizedRejected ==
  [][\A u \in MainMembers \ Admins :
       AdminOnlyStep(u) =>
         /\ out'.kind = "reject_admin"
         /\ data' = ensureToday(St0).data
         /\ file' = ensureToday(St0).file
    ]_vars

\* C8: done is accepted exactly for eligible principals.  A caller who lacks
\* the configured role gets a rejection and completed and the file stay as
\* they are; a caller who holds it, or any caller when no role is configured,
\* is in completed once the append-and-save step is over.
C8_DoneEligibility ==
  [][\A t \in BagToSet(tasks) :
       DoneResumes(t) =>
         IF data.gangRoleId # NULL /\ t.user \notin GangSet
         THEN /\ out'.kind = "reject_role"
              /\ data'.completed = data.completed
              /\ file' = file
         ELSE /\ out'.kind # "reject_role"
              /\ IF writes' # <<>>
                 THEN t.user \in Range(writes'[1].completed)
                 ELSE t.user \in Range(data'.completed)
    ]_vars

\* a done has just been rejected for a member who lacks the configured role
C8_Witness ==
  /\ out.kind = "reject_role"
  /\ ConfiguredRole /\ out.user \notin GangSet /\ out.user \notin DoneSet

ForceResetStep == \E u \in MainMembers : BasicForceReset(u) \/ ForceReset(u)

\* C9: force-reset leaves completed empty, currentDate equal to today (so
\* unchanged when the document was current), the role unchanged, the file
\* equal to the document, and a summarize that follows reports doneCount 0.
C9_ForceReset ==
  [][ForceResetStep =>
       /\ data'.completed = <<>>
       /\ data'.currentDate = now
       /\ data.currentDate = now => data'.currentDate = data.currentDate
       /\ data'.gangRoleId = data.gangRoleId
       /\ file' = FileOf(data')
       /\ summarize(PostSt).doneCount = 0
    ]_vars

\* a force-reset has just been answered, with a role configured
C9_Witness ==
  /\ out.kind = "reset" /\ ConfiguredRole
  /\ data.completed = <<>> /\ data.currentDate = now /\ GangSet # {}

\* a step of a read handler: /status, /remaining, and the Status and Who's
\* Left buttons, before and after their roster fetch
ReadStep ==
  \/ Status
  \/ RemainingCmd
  \/ \E u \in MainMembers :
       Interaction(u, "btn_status") \/ Interaction(u, "btn_remaining")
  \/ \E t \in BagToSet(tasks) : BtnStatusFetched(t) \/ BtnRemainingFetched(t)

\* C11 as stated: for every state and clock value a read handler leaves the
\* document (date, completed, role, panel references) and the file exactly
\* as they were.
C11_ReadNeverMutates ==
  [][ReadStep => data' = data /\ file' = file]_vars

\* C11 as amended: a read handler changes the document and the file only by
\* the Rollover Rule it starts with.  On a document that carries today's
\* date it leaves document and file exactly as they were; on a stale one it
\* sets currentDate to today, empties completed, keeps the role and the
\* panel references, and overwrites the file with that document.
C11_ReadOnlyRollsOver ==
  [][\/ IF data.currentDate = now
        THEN data' = data /\ file' = file /\ writes' = <<>>
        ELSE /\ data' = [data EXCEPT !.currentDate = now, !.completed = <<>>]
             /\ file' = FileOf(data')
     \/ ~ReadStep
    ]_vars

\* /status has just answered on a current document that was never saved:
\* the file is still the unreadable one the process started with
C11_Witness ==
  /\ out.kind = "status" /\ writes = <<>>
  /\ data.currentDate = now /\ file.kind # "doc"

\* C12: every mutation of the document is followed, in the same synchronous
\* run, by an overwrite of the file with the whole document: a step that
\* changes the document, or that saves at all, ends with the file equal to
\* the document, and once file and document agree they agree whenever a
\* handler or the timer callback is suspended or finished.
C12_MutationPersisted ==
  [][/\ (phase # "boot" /\ data' # data) =>
          file' = FileOf(data') /\ writes' # <<>>
     /\ writes' # <<>> =>
          file' = FileOf(data') /\ writes'[Len(writes')] = data'
     /\ file = FileOf(data) => file' = FileOf(data')
    ]_vars

\* a done handler has appended a member, saved, and is now suspended at the
\* panel refresh
C12_Witness ==
  /\ \E t \in BagToSet(tasks) : t.kind = "done" /\ t.pc = "refresh"
  /\ writes = <<data>> /\ file = FileOf(data)
  /\ data.completed # <<>>

\* C13: overlapping done handlers of different eligible members lose nothing.
\* A done handler that resumes from the roster fetch for an eligible member,
\* on a current document, ends with completed holding every identifier it
\* held plus the member's, and with the file equal to the document; and no
\* step other than a rollover or a force-reset removes an identifier from
\* completed.  So whichever of two suspended handlers resumes first, both
\* identifiers end up in completed and in the file.
C13_OverlappingDone ==
  [][/\ \A t \in BagToSet(tasks) :
          (DoneResumes(t) /\ isGangMember(data, t.user)
             /\ data.currentDate = now) =>
            /\ Range(data'.completed) = Range(data.completed) \cup {t.user}
            /\ file' = FileOf(data')
     /\ \/ Range(data.completed) \subseteq Range(data'.completed)
        \/ phase = "boot" \/ data.currentDate # now \/ ForceResetStep
    ]_vars

\* one of two overlapping done handlers has recorded its member while the
\* other is still suspended at the roster fetch
C13_Witness ==
  /\ out.kind = "recorded" /\ out.user = "m2" /\ data.completed = <<"m2">>
  /\ Suspended(Task("done", "m1", "fetch"))
  /\ isGangMember(data, "m1") /\ data.currentDate = now

\* C14: rollover is caught with no user activity.  Once the client is ready
\* the recurring timer is armed, whatever the outcome of command
\* registration and whatever handlers are in flight, so that a stale date
\* met with no command or button event is still followed by a timer tick
\* that applies the Rollover Rule.
C14_TimerCatchesRollover ==
  phase = "running" => timerOn /\ (Quiet => ENABLED Tick)

\* after the step a refresh of the panel message is under way: some handler
\* is at the channels.fetch / messages.fetch that leads to
\* msg.edit({ embeds: [panelEmbed(guild)] }), which will read the document
\* as the step left it, or the step itself is the one that builds the embed
\* and sends the edit
RefreshTriggered ==
  \/ \E t \in BagToSet(tasks') : t.pc = "refresh"
  \/ \E t \in BagToSet(tasks) : MessageFetched(t, TRUE)

\* the Rollover Rule finds a stale date in this step and clears completed
RolloverStep ==
  /\ phase # "boot"
  /\ data.currentDate # now
  /\ data'.currentDate = now

\* C15: in the panel build, a step in which the Rollover Rule clears
\* completed while a panel location is recorded triggers a refresh of the
\* panel message (or finds one under way), so the panel does not keep the
\* previous day's date and counts.
C15_RolloverRefreshesPanel ==
  [][(variant = "panel" /\ HasPanel(data) /\ RolloverStep) => RefreshTriggered
    ]_vars

\* C16: a failure of an external call made by a handler (the roster fetch of
\* the invoking member, the fetch or edit of the panel message, the send of
\* the panel) is caught where the call is made: no handler ends with its
\* failure propagating out of it.
C16_FailuresCaught == out.kind # "unhandled"

\* C17: in the panel build each button does what its command does.  From
\* the same document and roster the Status button shows the counts exactly
\* when /status would and leaves the same document, and the Who's Left
\* button gives the reply /remaining would (the list, "everyone is done" or
\* the set-role prompt), also when the configured role has no members.
\* (I'm Done and Ping Remaining run the statements of /done and
\* /ping-remaining.)
C17_ButtonsMatchCommands ==
  [][variant = "panel" =>
       \A t \in BagToSet(tasks) :
         LET s == summarize(ensureToday(St0))
         IN  /\ BtnStatusFetched(t) =>
                  /\ out'.counts = StatusCounts(s.total)
                  /\ out'.total = s.total /\ out'.doneCount = s.doneCount
                  /\ data' = s.st.data
             /\ BtnRemainingFetched(t) =>
                  /\ out'.kind = RemainingReply("list", NoUser, s).kind
                  /\ out'.list = RemainingReply("list", NoUser, s).list
                  /\ data' = s.st.data
    ]_vars

\* C18: load never fails and never yields an unusable document.  Whatever
\* the file holds when the process starts, the module load ends with a
\* document handlers can run on; and as long as the file is still the absent
\* or unreadable one the process started with, the document is the default
\* one: an empty completed list, no role, no panel references, and the
\* date of the day it was loaded.
C18_LoadRecovers ==
  /\ phase # "crashed"
  /\ (phase # "boot" /\ file.kind # "doc") =>
       /\ data = Doc(data.currentDate, <<>>, NULL, NULL, NULL)
       /\ data.currentDate \in Days /\ data.currentDate <= now

SetRoleStep(r) == \E u \in MainMembers : BasicSetGangRole(u, r) \/ SetGangRole(u, r)
RosterStep == (\E m \in MainMembers : MemberUpdate(m, DynamicRole)) \/ RoleDelete(DynamicRole)
PanelRefs(d) == <<d.panelMessageId, d.panelChannelId>>

\* what C19 says of the roster and of rollover and force-reset: a membership
\* change or a role deletion changes nothing in the document, and a step
\* that rolls the document over or force-resets it leaves the role and the
\* panel references as they are
RoleFrame ==
  /\ (data' = data /\ file' = file) \/ ~RosterStep
  /\ \/ /\ data'.gangRoleId = data.gangRoleId
        /\ PanelRefs(data') = PanelRefs(data)
     \/ ~(Tick \/ ForceResetStep)
  /\ RolloverStep =>
       /\ data'.gangRoleId = data.gangRoleId \/ SetRoleStep(data'.gangRoleId)
       /\ PanelRefs(data') = PanelRefs(data)

\* C19: the completed list persists across role changes and deletions.
\* The write of setgangrole changes only gangRoleId: on a document that
\* carries today's date completed, currentDate and the panel references stay
\* exactly as they are (on a stale one the Rollover Rule every handler starts
\* with has run first, and the role is the only other change); a membership
\* change or role deletion changes nothing in the document; rollover and
\* force-reset leave the role and the panel references as they are.
C19_RoleChangeKeepsCompleted ==
  [][/\ LET r == data'.gangRoleId   \* the role a setgangrole step leaves
        IN  \/ /\ data' = [ensureToday(St0).data EXCEPT !.gangRoleId = r]
               /\ data.currentDate = now => data' = [data EXCEPT !.gangRoleId = r]
               /\ PanelRefs(data') = PanelRefs(data)
            \/ ~SetRoleStep(r)
     /\ RoleFrame
    ]_vars

\* /setgangrole has just replaced the role while somebody was done today:
\* the list is still there
C19_Witness ==
  /\ out.kind = "role_set" /\ writes = <<data>>
  /\ data.completed # <<>> /\ data.currentDate = now
  /\ data.gangRoleId = "r2"

\* C20: remaining and ping-remaining (command and button) reply "Everyone is
\* done" only when a role is configured, exists, and all its members are in
\* completed; with no role configured, or a role that no longer exists,
\* they reply with the set-a-gang-role prompt and no mention is sent.
C20_EveryoneDoneOnlyWithRole ==
  /\ out.kind = "everyone_done" => ConfiguredRole /\ GangSet \subseteq DoneSet
  /\ (out.kind \in {"list", "ping", "everyone_done", "need_role"}
        /\ ~ConfiguredRole) => out.kind = "need_role"

\* C21: the success reply of done is true when it is sent.  Whenever a done
\* handler (command or button) replies "marked DONE for <date>", the date is
\* the document's currentDate, the file holds the document, and the caller is
\* in completed, whatever rollover, force-reset or other handler ran while
\* the handler was suspended.  (A handler that went through the panel refresh
\* replies without reading the member it fetched; its caller can be in
\* completed only if completed holds somebody.)
C21_DoneReplyRecorded ==
  out.kind = "recorded" =>
    /\ out.date = data.currentDate
    /\ file = FileOf(data)
    /\ IF out.user # NoUser THEN out.user \in DoneSet ELSE DoneSet # {}

\* the identifiers a step adds: those in the document it leaves, or in a
\* document it saved on the way, that completed did not hold before
Inserted ==
  (Range(data'.completed)
     \cup UNION {Range(writes'[i].completed) : i \in 1..Len(writes')})
  \ Range(data.completed)

\* completed gains identifiers only from the done handler of their own
\* principal, eligible when the handler inserts; rollover and force-reset,
\* which both save, leave the list empty
OwnDoneInserts ==
  /\ \/ data'.completed = data.completed /\ writes' = <<>>
     \/ Inserted = {}
     \/ phase = "boot"
     \/ \E t \in BagToSet(tasks) :
          /\ DoneResumes(t)
          /\ t.user \in MainMembers
          /\ data.gangRoleId = NULL \/ t.user \in GangSet
          /\ Inserted = {t.user}
  /\ \/ data'.completed = <<>> \/ writes' = <<>>
     \/ ~(RolloverStep \/ ForceResetStep)

\* a rollover or force-reset runs while the done handler of an eligible
\* member, invoked before it, waits for its roster fetch: the handler will
\* insert the member after it
ClearedWhilePending ==
  /\ RolloverStep \/ ForceResetStep
  /\ \E u \in MainMembers :
       /\ BagIn(Task("done", u, "fetch"), tasks)
       /\ BagIn(Task("done", u, "fetch"), tasks')
       /\ isGangMember(data', u) /\ u \notin Range(data'.completed)

\* C22 as stated: every identifier in completed belongs to a principal who
\* invoked done since the last rollover or force-reset and was eligible when
\* it was inserted; nothing but that principal's own done adds to completed.
\* A done handler inserts only once its roster fetch resolves, so an
\* invocation that is to count must not have a rollover or force-reset
\* between it and its insertion.
C22_InvokedSinceClear ==
  [][OwnDoneInserts /\ ~ClearedWhilePending]_vars

\* C22 as amended: every identifier in completed was inserted, since the last
\* rollover or force-reset, by the done handler (command or button) of its
\* own principal, who passed the eligibility check at the moment of
\* insertion; no handler inserts another principal's identifier and no
\* operation other than done adds to completed.  (The invocation itself may
\* come before that rollover or force-reset.)
C22_OnlyOwnDoneInserts ==
  [][OwnDoneInserts]_vars

\* on the second day a done handler has just inserted a member who holds the
\* configured role, next to one recorded earlier that day
C22_Witness ==
  /\ out.kind = "recorded" /\ out.user = "m2" /\ writes # <<>>
  /\ ConfiguredRole /\ "m2" \in GangSet
  /\ data.currentDate = now /\ now > 1
  /\ data.completed = <<"m1", "m2">>

----------------------------------------------------------------------------
(* The membership view on its own: every roster order, role membership and *)
(* short completed list, to which /status and /remaining are applied.      *)

MaxViewDone == 1

Injective(f) == \A i, j \in DOMAIN f : f[i] = f[j] => i = j
Perms(S) == {f \in [1..Cardinality(S) -> S] : Injective(f)}
DistinctSeqs(S, n) == UNION {{f \in [1..k -> S] : Injective(f)} : k \in 0..n}

InitView ==
  /\ variant = "basic"
  /\ phase = "running"
  /\ timerOn = FALSE
  /\ now = 1
  /\ \E c \in DistinctSeqs(Members, MaxViewDone) :
       /\ data = Doc(1, c, "r1", NULL, NULL)
       /\ file = FileOf(Doc(1, c, "r1", NULL, NULL))
  /\ roles = Roles
  /\ \E S \in SUBSET Members :
       roleMembers = [r \in Roles |-> IF r = "r1" THEN S ELSE {}]
  /\ guildOrder \in Perms(Members)
  /\ tasks = EmptyBag
  /\ out = NoReply
  /\ writes = <<>>

NextView == Status \/ RemainingCmd \/ Settle

SpecView == InitView /\ [][NextView]_vars

\* String.prototype.toLowerCase on the code units of a name
CaseFold(name) == [i \in 1..Len(name) |-> IF name[i] < 97 THEN name[i] + 32 ELSE name[i]]
Pos(m) == CHOOSE i \in 1..Len(guildOrder) : guildOrder[i] = m

\* C10: with a configured existing role, the remaining list of a reply is
\* exactly the role's members not in completed, each once, ascending by
\* display name without regard to case, members of the same name in roster
\* order.
C10_RemainingSorted ==
  (ConfiguredRole /\ out.kind \in {"status", "list", "everyone_done"}) =>
    LET L == out.list
    IN  /\ Range(L) = GangSet \ DoneSet
        /\ Len(L) = Cardinality(GangSet \ DoneSet)
        /\ \A i, j \in 1..Len(L) :
             i < j =>
               /\ CmpSeq(CaseFold(displayName(L[i])), CaseFold(displayName(L[j]))) <= 0
               /\ displayName(L[i]) = displayName(L[j]) => Pos(L[i]) < Pos(L[j])

\* /remaining has listed amy, bo and the two Bo in roster order, Zed being done
C10_Witness ==
  /\ out.kind = "list"
  /\ guildOrder = <<"m5", "m3", "m2", "m4", "m1">>
  /\ data.completed = <<"m3">>
  /\ out.list = <<"m1", "m4", "m5", "m2">>

====
